---- MODULE Spec2Model ----
(***************************************************************************)
(* Clock tree configuration of the STM32H7x3 HAL (src/src/rcc.rs).         *)
(*                                                                         *)
(* The model follows one CFGR builder value from RccExt::constrain through *)
(* the consuming setters to CFGR::freeze, which is split at every register *)
(* write, busy-wait and panic site of the source.  u32 quantities that can *)
(* reach 2^31 or more (the product ref_ck * divn, a wrapped subtraction)   *)
(* are carried as pairs <<high, low>> of 16-bit limbs.                     *)
(***************************************************************************)
EXTENDS Integers, Sequences, FiniteSets, TLC

VARIABLES
    overflow_checks, \* build profile: TRUE = arithmetic overflow panics, FALSE = wraps
    cfg,             \* the CFGR builder value
    pc,              \* position of the program
    regs,            \* RCC and FLASH register fields
    regs0,           \* the register fields as they were when the builder was made
    writes,          \* register fields written so far, in order
    sys_ck,          \* local of freeze
    hpre,            \* local of freeze
    hclk,            \* local of freeze
    acr_config,      \* local of freeze
    d1ppre,          \* local of freeze
    d2ppre1,         \* local of freeze
    d2ppre2,         \* local of freeze
    d3ppre,          \* local of freeze
    clocks,          \* the Clocks value freeze returned
    outcome          \* "running", "ok", or the panic that ended the program

vars == <<overflow_checks, cfg, pc, regs, regs0, writes, sys_ck, hpre, hclk,
          acr_config, d1ppre, d2ppre1, d2ppre2, d3ppre, clocks, outcome>>

locals == <<sys_ck, hpre, hclk, acr_config, d1ppre, d2ppre1, d2ppre2, d3ppre>>

-----------------------------------------------------------------------------
(* Option<T> *)

None == <<>>

Some(x) == <<x>>

IsSome(o) == o # None

Unwrap(o) == o[1]

UnwrapOr(o, d) == IF IsSome(o) THEN o[1] ELSE d

-----------------------------------------------------------------------------
(* u32 arithmetic on 16-bit limbs *)

Limb == 2 ^ 16

\* the u32 of an integer 0 .. 2^31 - 1
U32(n) == <<n \div Limb, n % Limb>>

U32Less(x, y) == x[1] < y[1] \/ (x[1] = y[1] /\ x[2] < y[2])

\* the integer of a u32 below 2^31
ToInt(x) == x[1] * Limb + x[2]

\* a - b modulo 2^32, for a and b below 2^31
WrappingSub(a, b) ==
    IF a >= b
    THEN U32(a - b)
    ELSE LET m == (2147483647 - (b - a)) + 1
         IN  <<(m \div Limb) + 32768, m % Limb>>

\* the exact product a * b, its high limb not reduced (a < 2^24, b < 2^10)
WideMul(a, b) ==
    LET lo == (a % Limb) * b
        hi == (a \div Limb) * b + (lo \div Limb)
    IN  <<hi, lo % Limb>>

MulOverflows(a, b) == WideMul(a, b)[1] >= Limb

\* a * b modulo 2^32
WrappingMul(a, b) == LET p == WideMul(a, b) IN <<p[1] % Limb, p[2]>>

\* x / d, for a limb pair x
LimbDiv(x, d) ==
    LET r == x[1] % d
    IN  <<x[1] \div d, (r * Limb + x[2]) \div d>>

-----------------------------------------------------------------------------
(* Constants of the source *)

HSI == 64000000

hpre_values == <<1, 2, 4, 8, 16, 64, 128, 256, 512>>

ppre_values == <<1, 2, 4, 8, 16>>

DefaultDivm == 32

DefaultDivn == 128

DefaultDivp == 1

-----------------------------------------------------------------------------
(* Inputs *)

\* divider triples handed to sys_ck
SysCkInputs ==
    { <<32, 129, 2>>,   \* ref_ck 2 MHz, 129 MHz
      <<10, 50, 2>>,    \* ref_ck 6.4 MHz, 160 MHz
      <<10, 20, 2>>,    \* 64 MHz, the oscillator frequency
      <<10, 75, 2>>,    \* 240 MHz
      <<10, 65, 2>>,    \* 208 MHz
      <<10, 225, 16>>,  \* 90 MHz
      <<40, 100, 2>>,   \* ref_ck 1.6 MHz, 80 MHz
      <<20, 50, 4>>,    \* ref_ck 3.2 MHz, 40 MHz
      <<5, 336, 2>>,    \* 12.8 MHz * 336 exceeds 2^32
      <<5, 62, 2>>,     \* 396.8 MHz
      <<5, 63, 2>>,     \* 403.2 MHz
      <<63, 512, 128>>, \* ref_ck 1015873 Hz
      <<16, 50, 2>>,    \* ref_ck 4 MHz, 100 MHz
      <<8, 25, 2>>,     \* ref_ck 8 MHz, 100 MHz
      <<4, 50, 2>>,     \* ref_ck 16 MHz
      <<0, 50, 2>>, <<64, 50, 2>>,
      <<10, 2, 2>>, <<10, 513, 2>>,
      <<10, 50, 1>>, <<10, 50, 3>>, <<10, 50, 130>> }

Hclk1Inputs == {0, 250000, 32000000, 100000000, 200000000, 201000000}

Hclk2Inputs == {32000000}

Hclk3Inputs == {100000000}

Hclk4Inputs == {201000000}

Pclk1Inputs == {16000000, 64000000, 300000000}

Pclk2Inputs == {40000000}

Pclk3Inputs == {8000000}

Pclk4Inputs == {5000000}

\* the builder chain sets at most this many distinct settings
MaxSettings == 3

-----------------------------------------------------------------------------
(* Pure parts of freeze *)

\* match ref_ck { 1_000_001..2_000_000 => 0b00, ... , _ => unreachable!() }
RgeBits(ref_ck) ==
    IF ref_ck >= 1000001 /\ ref_ck < 2000000 THEN Some(0)
    ELSE IF ref_ck >= 2000001 /\ ref_ck < 4000000 THEN Some(1)
    ELSE IF ref_ck >= 4000001 /\ ref_ck < 8000000 THEN Some(2)
    ELSE IF ref_ck >= 8000001 /\ ref_ck < 16000000 THEN Some(3)
    ELSE None

\* AcrConfig with the first row reaching up to 90 MHz
AcrConfigWideFirstRow(f) ==
    IF f >= 0 /\ f < 90000000 THEN Some(<<0, 0>>)
    ELSE IF f >= 90000001 /\ f < 135000000 THEN Some(<<2, 1>>)
    ELSE IF f >= 135000001 /\ f < 180000000 THEN Some(<<3, 2>>)
    ELSE IF f >= 180000001 /\ f < 225000000 THEN Some(<<4, 2>>)
    ELSE None

\* AcrConfig with the settings of the two highest rows exchanged
AcrConfigSwappedRows(f) ==
    IF f >= 0 /\ f < 45000000 THEN Some(<<0, 0>>)
    ELSE IF f >= 45000001 /\ f < 90000000 THEN Some(<<1, 1>>)
    ELSE IF f >= 90000001 /\ f < 135000000 THEN Some(<<2, 1>>)
    ELSE IF f >= 135000001 /\ f < 180000000 THEN Some(<<4, 2>>)
    ELSE IF f >= 180000001 /\ f < 225000000 THEN Some(<<3, 2>>)
    ELSE None

\* match hclk { 0..45_000_000 => (0, 0), ... , _ => unreachable!() }
AcrConfig(f) ==
    IF f >= 0 /\ f < 45000000 THEN Some(<<0, 0>>)
    ELSE IF f >= 45000001 /\ f < 90000000 THEN Some(<<1, 1>>)
    ELSE IF f >= 90000001 /\ f < 135000000 THEN Some(<<2, 1>>)
    ELSE IF f >= 135000001 /\ f < 180000000 THEN Some(<<3, 2>>)
    ELSE IF f >= 180000001 /\ f < 225000000 THEN Some(<<4, 2>>)
    ELSE None

\* Scan without the assignment to closest
RECURSIVE ScanKeepsClosest(_, _, _, _, _, _)
ScanKeepsClosest(target, clock, values, i, best, closest) ==
    IF i > Len(values)
    THEN best
    ELSE IF U32Less(WrappingSub(target, clock \div values[i]), closest)
         THEN ScanKeepsClosest(target, clock, values, i + 1, values[i], closest)
         ELSE ScanKeepsClosest(target, clock, values, i + 1, best, closest)

\* the loop "for test in values { if target - clock / test < closest {..} }"
\* from element i on, with the best divisor and distance so far
RECURSIVE Scan(_, _, _, _, _, _)
Scan(target, clock, values, i, best, closest) ==
    IF i > Len(values)
    THEN best
    ELSE LET dist == WrappingSub(target, clock \div values[i])
         IN  IF U32Less(dist, closest)
             THEN Scan(target, clock, values, i + 1, values[i], dist)
             ELSE Scan(target, clock, values, i + 1, best, closest)

\* let mut closest = 200_000_000; let mut best = 1; for ...
BestDivisor(target, clock, values) ==
    Scan(target, clock, values, 1, 1, U32(200000000))

\* some target - clock / test of the loop is below zero
Underflows(target, clock, values) ==
    \E i \in 1..Len(values) : target < clock \div values[i]

\* HonoredHclk with the if-chain in the opposite order
HonoredHclkLastFirst(c) ==
    IF IsSome(c.hclk4) THEN c.hclk4
    ELSE IF IsSome(c.hclk3) THEN c.hclk3
    ELSE IF IsSome(c.hclk2) THEN c.hclk2
    ELSE c.hclk1

\* the first core-bus target that is set, in the order of the if-chain
HonoredHclk(c) ==
    IF IsSome(c.hclk1) THEN c.hclk1
    ELSE IF IsSome(c.hclk2) THEN c.hclk2
    ELSE IF IsSome(c.hclk3) THEN c.hclk3
    ELSE c.hclk4

\* cast::u8(x) is Ok
FitsU8(x) == x >= 0 /\ x <= 255

-----------------------------------------------------------------------------
(* State *)

\* CFGR as RccExt::constrain makes it
EmptyCfg ==
    [hclk1 |-> None, hclk2 |-> None, hclk3 |-> None, hclk4 |-> None,
     pclk1 |-> None, pclk2 |-> None, pclk3 |-> None, pclk4 |-> None,
     sys_ck |-> None, divm |-> None, divn |-> None, divp |-> None]

\* The fields freeze touches, running from the internal oscillator with the
\* PLL off.  A prescaler field holds the divisor, as freeze writes it.
ResetRegs ==
    [sw |-> 0, sws |-> 0, pllsrc |-> 0, divm1 |-> 32, pll1rge |-> 0,
     pll1vcosel |-> FALSE, pll1fracen |-> FALSE, divn1 |-> 128,
     divp1en |-> TRUE, divp1 |-> 1, pll1on |-> FALSE, pll1rdy |-> FALSE,
     hpre |-> 1, d1ppre |-> 1, d2ppre1 |-> 1, d2ppre2 |-> 1, d3ppre |-> 1,
     latency |-> 7, wrhighfreq |-> 3]

\* What an earlier run can have left behind: the PLL on and selected.
ResidualRegs ==
    [ResetRegs EXCEPT !.sw = 3, !.sws = 3, !.pll1on = TRUE, !.pll1rdy = TRUE]

Init ==
    /\ overflow_checks \in BOOLEAN
    /\ cfg = EmptyCfg
    /\ pc = "build"
    /\ regs \in {ResetRegs, ResidualRegs}
    /\ regs0 = regs
    /\ writes = <<>>
    /\ sys_ck = None
    /\ hpre = None
    /\ hclk = None
    /\ acr_config = None
    /\ d1ppre = None
    /\ d2ppre1 = None
    /\ d2ppre2 = None
    /\ d3ppre = None
    /\ clocks = None
    /\ outcome = "running"

\* a panic: the program ends, nothing else changes
Panic(kind) ==
    /\ pc' = "done"
    /\ outcome' = kind
    /\ UNCHANGED <<overflow_checks, cfg, regs, regs0, writes, locals, clocks>>

\* rcc.<reg>.modify(|_, w| w.<field>().bits(value)), then on to the next step
Write(field, value, next) ==
    /\ regs' = [regs EXCEPT ![field] = value]
    /\ writes' = Append(writes, field)
    /\ pc' = next
    /\ UNCHANGED <<overflow_checks, cfg, regs0, locals, clocks, outcome>>

-----------------------------------------------------------------------------
(* The builder *)

\* the settings made so far
NumSettings(c) == Cardinality({f \in DOMAIN c \ {"divm", "divn", "divp"} : IsSome(c[f])})

SetTarget(field, freq) ==
    /\ pc = "build"
    /\ IsSome(cfg[field]) \/ NumSettings(cfg) < MaxSettings
    /\ cfg' = [cfg EXCEPT ![field] = Some(freq)]
    /\ UNCHANGED <<overflow_checks, pc, regs, regs0, writes, locals, clocks, outcome>>

hclk1 == \E f \in Hclk1Inputs : SetTarget("hclk1", f)

hclk2 == \E f \in Hclk2Inputs : SetTarget("hclk2", f)

hclk3 == \E f \in Hclk3Inputs : SetTarget("hclk3", f)

hclk4 == \E f \in Hclk4Inputs : SetTarget("hclk4", f)

pclk1 == \E f \in Pclk1Inputs : SetTarget("pclk1", f)

pclk2 == \E f \in Pclk2Inputs : SetTarget("pclk2", f)

pclk3 == \E f \in Pclk3Inputs : SetTarget("pclk3", f)

pclk4 == \E f \in Pclk4Inputs : SetTarget("pclk4", f)

\* (ref_ck * divn) / divp in u32, as a limb pair
PllPCk(ref_ck, divn, divp) == LimbDiv(WrappingMul(ref_ck, divn), divp)

\* the assertion of sys_ck that fails for the triple, or None
SysCkPanic(divm, divn, divp, checks) ==
    IF ~(divm > 0 /\ divm < 64) THEN Some("divm")
    ELSE IF ~(divn > 2 /\ divn < 513) THEN Some("divn")
    ELSE IF ~(divp > 1 /\ divp < 129 /\ divp % 2 = 0) THEN Some("divp")
    ELSE IF ~(HSI \div divm > 1000000 /\ HSI \div divm < 16000000) THEN Some("ref_ck")
    ELSE IF checks /\ MulOverflows(HSI \div divm, divn) THEN Some("overflow")
    ELSE IF ~U32Less(PllPCk(HSI \div divm, divn, divp), U32(400000000)) THEN Some("pll_p_ck")
    ELSE None

SysCkSet(divm, divn, divp) ==
    /\ pc = "build"
    /\ IsSome(cfg.sys_ck) \/ NumSettings(cfg) < MaxSettings
    /\ LET p == SysCkPanic(divm, divn, divp, overflow_checks)
       IN  IF IsSome(p)
           THEN Panic(Unwrap(p))
           ELSE /\ cfg' = [cfg EXCEPT !.divm = Some(divm), !.divp = Some(divp),
                                      !.divn = Some(divn),
                                      !.sys_ck = Some(ToInt(PllPCk(HSI \div divm, divn, divp)))]
                /\ UNCHANGED <<overflow_checks, pc, regs, regs0, writes, locals,
                               clocks, outcome>>

SysCk == \E t \in SysCkInputs : SysCkSet(t[1], t[2], t[3])

-----------------------------------------------------------------------------
(* freeze: the system clock *)

\* HSI / self.divm.unwrap_or(0b100000)
RefCk(c) == HSI \div UnwrapOr(c.divm, DefaultDivm)

\* let mut sys_ck = self.sys_ck.unwrap_or(HSI); if sys_ck == HSI {..} else {..}
FreezeBegin ==
    /\ pc = "build"
    /\ sys_ck' = Some(UnwrapOr(cfg.sys_ck, HSI))
    /\ pc' = IF UnwrapOr(cfg.sys_ck, HSI) = HSI THEN "hsi_sw" ELSE "pllsrc"
    /\ UNCHANGED <<overflow_checks, cfg, regs, regs0, writes, hpre, hclk, acr_config,
                   d1ppre, d2ppre1, d2ppre2, d3ppre, clocks, outcome>>

WriteSwHsi == pc = "hsi_sw" /\ Write("sw", 0, "hsi_sws")

\* WaitSwsHsi without the wait
WaitSwsHsiNoWait ==
    /\ pc = "hsi_sws"
    /\ pc' = "calc_hpre"
    /\ UNCHANGED <<overflow_checks, cfg, regs, regs0, writes, locals, clocks, outcome>>

\* while rcc.cfgr.read().sws().bits() != 0b000 {}
WaitSwsHsi ==
    /\ pc = "hsi_sws"
    /\ regs.sws = 0
    /\ pc' = "calc_hpre"
    /\ UNCHANGED <<overflow_checks, cfg, regs, regs0, writes, locals, clocks, outcome>>

WritePllsrc == pc = "pllsrc" /\ Write("pllsrc", 0, "divm1")

WriteDivm1 ==
    /\ pc = "divm1"
    /\ IF FitsU8(UnwrapOr(cfg.divm, DefaultDivm))
       THEN Write("divm1", UnwrapOr(cfg.divm, DefaultDivm), "pll1rge")
       ELSE Panic("cast")

WritePll1rge ==
    /\ pc = "pll1rge"
    /\ IF IsSome(RgeBits(RefCk(cfg)))
       THEN Write("pll1rge", Unwrap(RgeBits(RefCk(cfg))), "pll1vcosel")
       ELSE Panic("unreachable")

WritePll1vcosel == pc = "pll1vcosel" /\ Write("pll1vcosel", RefCk(cfg) < 2000000, "pll1fracen")

WritePll1fracen == pc = "pll1fracen" /\ Write("pll1fracen", FALSE, "divn1")

WriteDivn1 ==
    /\ pc = "divn1"
    /\ IF UnwrapOr(cfg.divn, DefaultDivn) <= 65535
       THEN Write("divn1", UnwrapOr(cfg.divn, DefaultDivn), "divp1en")
       ELSE Panic("cast")

WriteDivp1en == pc = "divp1en" /\ Write("divp1en", TRUE, "divp1")

WriteDivp1 ==
    /\ pc = "divp1"
    /\ IF FitsU8(UnwrapOr(cfg.divp, DefaultDivp))
       THEN Write("divp1", UnwrapOr(cfg.divp, DefaultDivp), "pll1on")
       ELSE Panic("cast")

WritePll1on == pc = "pll1on" /\ Write("pll1on", TRUE, "pll1rdy")

\* WaitPll1rdy with the loop condition negated
WaitPll1rdyInverted ==
    /\ pc = "pll1rdy"
    /\ ~regs.pll1rdy
    /\ pc' = "pll_sw"
    /\ UNCHANGED <<overflow_checks, cfg, regs, regs0, writes, locals, clocks, outcome>>

\* WaitPll1rdy without the wait
WaitPll1rdyNoWait ==
    /\ pc = "pll1rdy"
    /\ pc' = "pll_sw"
    /\ UNCHANGED <<overflow_checks, cfg, regs, regs0, writes, locals, clocks, outcome>>

\* while !(rcc.cr.read().pll1rdy().bit()) {}
WaitPll1rdy ==
    /\ pc = "pll1rdy"
    /\ regs.pll1rdy
    /\ pc' = "pll_sw"
    /\ UNCHANGED <<overflow_checks, cfg, regs, regs0, writes, locals, clocks, outcome>>

WriteSwPll == pc = "pll_sw" /\ Write("sw", 3, "pll_sws")

\* while rcc.cfgr.read().sws().bits() != 0b011 {}
WaitSwsPll ==
    /\ pc = "pll_sws"
    /\ regs.sws = 3
    /\ pc' = "pll_sys_ck"
    /\ UNCHANGED <<overflow_checks, cfg, regs, regs0, writes, locals, clocks, outcome>>

\* sys_ck = (ref_ck * self.divn.unwrap_or(0x080)) / self.divp.unwrap_or(0b0000001)
RecomputeSysCk ==
    /\ pc = "pll_sys_ck"
    /\ IF overflow_checks /\ MulOverflows(RefCk(cfg), UnwrapOr(cfg.divn, DefaultDivn))
       THEN Panic("overflow")
       ELSE /\ sys_ck' = Some(ToInt(PllPCk(RefCk(cfg), UnwrapOr(cfg.divn, DefaultDivn),
                                           UnwrapOr(cfg.divp, DefaultDivp))))
            /\ pc' = "calc_hpre"
            /\ UNCHANGED <<overflow_checks, cfg, regs, regs0, writes, hpre, hclk,
                           acr_config, d1ppre, d2ppre1, d2ppre2, d3ppre, clocks, outcome>>

-----------------------------------------------------------------------------
(* The hardware *)

\* the PLL locks some time after it was switched on
HwPllLock ==
    /\ regs.pll1on
    /\ ~regs.pll1rdy
    /\ regs' = [regs EXCEPT !.pll1rdy = TRUE]
    /\ UNCHANGED <<overflow_checks, cfg, pc, regs0, writes, locals, clocks, outcome>>

\* the status field follows the selector some time after it was written
HwSwitch ==
    /\ regs.sws # regs.sw
    /\ regs.sw = 3 => regs.pll1rdy
    /\ regs' = [regs EXCEPT !.sws = regs.sw]
    /\ UNCHANGED <<overflow_checks, cfg, pc, regs0, writes, locals, clocks, outcome>>

-----------------------------------------------------------------------------
(* freeze: the prescalers and the flash timing *)

\* CalcHpre without the else branch that sets hpre to 2
CalcHpreDefaultOne ==
    /\ pc = "calc_hpre"
    /\ LET t == HonoredHclk(cfg)
       IN  IF IsSome(t) /\ ~(Unwrap(t) < 200000000)
           THEN Panic("hclk")
           ELSE IF IsSome(t) /\ overflow_checks
                   /\ Underflows(Unwrap(t), Unwrap(sys_ck), hpre_values)
           THEN Panic("overflow")
           ELSE /\ hpre' = Some(IF IsSome(t)
                                THEN BestDivisor(Unwrap(t), Unwrap(sys_ck), hpre_values)
                                ELSE 1)
                /\ pc' = "hpre"
                /\ UNCHANGED <<overflow_checks, cfg, regs, regs0, writes, sys_ck, hclk,
                               acr_config, d1ppre, d2ppre1, d2ppre2, d3ppre, clocks,
                               outcome>>

\* let mut hpre = 1; if self.hclk1.is_some() {..} else if .. else {..}
CalcHpre ==
    /\ pc = "calc_hpre"
    /\ LET t == HonoredHclk(cfg)
       IN  IF IsSome(t) /\ ~(Unwrap(t) < 200000000)
           THEN Panic("hclk")
           ELSE IF IsSome(t) /\ overflow_checks
                   /\ Underflows(Unwrap(t), Unwrap(sys_ck), hpre_values)
           THEN Panic("overflow")
           ELSE /\ hpre' = Some(IF IsSome(t)
                                THEN BestDivisor(Unwrap(t), Unwrap(sys_ck), hpre_values)
                                ELSE IF Unwrap(sys_ck) > 200000000 THEN 2 ELSE 1)
                /\ pc' = "hpre"
                /\ UNCHANGED <<overflow_checks, cfg, regs, regs0, writes, sys_ck, hclk,
                               acr_config, d1ppre, d2ppre1, d2ppre2, d3ppre, clocks,
                               outcome>>

\* WriteHpre without the register write
WriteHpreNoWrite ==
    /\ pc = "hpre"
    /\ hclk' = Some(Unwrap(sys_ck) \div Unwrap(hpre))
    /\ pc' = "acr"
    /\ UNCHANGED <<overflow_checks, cfg, regs, regs0, writes, sys_ck, hpre, acr_config,
                   d1ppre, d2ppre1, d2ppre2, d3ppre, clocks, outcome>>

\* rcc.d1cfgr.modify(.. w.hpre().bits(u8(hpre).unwrap())); let hclk = sys_ck / hpre;
WriteHpre ==
    /\ pc = "hpre"
    /\ IF FitsU8(Unwrap(hpre))
       THEN /\ regs' = [regs EXCEPT !.hpre = Unwrap(hpre)]
            /\ writes' = Append(writes, "hpre")
            /\ hclk' = Some(Unwrap(sys_ck) \div Unwrap(hpre))
            /\ pc' = "acr"
            /\ UNCHANGED <<overflow_checks, cfg, regs0, sys_ck, hpre, acr_config,
                           d1ppre, d2ppre1, d2ppre2, d3ppre, clocks, outcome>>
       ELSE Panic("cast")

\* let acr_config = match hclk {..}; acr.acr().modify(.. latency .. wrhighfreq ..)
WriteAcr ==
    /\ pc = "acr"
    /\ IF IsSome(AcrConfig(Unwrap(hclk)))
       THEN /\ acr_config' = AcrConfig(Unwrap(hclk))
            /\ regs' = [regs EXCEPT !.latency = Unwrap(AcrConfig(Unwrap(hclk)))[1],
                                    !.wrhighfreq = Unwrap(AcrConfig(Unwrap(hclk)))[2]]
            /\ writes' = Append(writes, "acr")
            /\ pc' = "calc_d1ppre"
            /\ UNCHANGED <<overflow_checks, cfg, regs0, sys_ck, hpre, hclk,
                           d1ppre, d2ppre1, d2ppre2, d3ppre, clocks, outcome>>
       ELSE Panic("unreachable")

\* let mut pclk = self.pclk.unwrap_or(hclk); if pclk != hclk {..}: the divisor
PpreDivisor(target, clock) ==
    IF UnwrapOr(target, clock) # clock
    THEN BestDivisor(UnwrapOr(target, clock), clock, ppre_values)
    ELSE 1

\* the search for a peripheral-bus divisor panics
PpreUnderflows(target, clock) ==
    /\ UnwrapOr(target, clock) # clock
    /\ Underflows(UnwrapOr(target, clock), clock, ppre_values)

\* CalcD1ppre writing the field as soon as the divisor is known
CalcD1ppreWritesAtOnce ==
    /\ pc = "calc_d1ppre"
    /\ d1ppre' = Some(PpreDivisor(cfg.pclk1, Unwrap(hclk)))
    /\ regs' = [regs EXCEPT !.d1ppre = PpreDivisor(cfg.pclk1, Unwrap(hclk))]
    /\ writes' = Append(writes, "d1ppre")
    /\ pc' = "calc_d2ppre1"
    /\ UNCHANGED <<overflow_checks, cfg, regs0, sys_ck, hpre, hclk,
                   acr_config, d2ppre1, d2ppre2, d3ppre, clocks, outcome>>

CalcD1ppre ==
    /\ pc = "calc_d1ppre"
    /\ IF overflow_checks /\ PpreUnderflows(cfg.pclk1, Unwrap(hclk))
       THEN Panic("overflow")
       ELSE /\ d1ppre' = Some(PpreDivisor(cfg.pclk1, Unwrap(hclk)))
            /\ pc' = "calc_d2ppre1"
            /\ UNCHANGED <<overflow_checks, cfg, regs, regs0, writes, sys_ck, hpre, hclk,
                           acr_config, d2ppre1, d2ppre2, d3ppre, clocks, outcome>>

CalcD2ppre1 ==
    /\ pc = "calc_d2ppre1"
    /\ IF overflow_checks /\ PpreUnderflows(cfg.pclk2, Unwrap(hclk))
       THEN Panic("overflow")
       ELSE /\ d2ppre1' = Some(PpreDivisor(cfg.pclk2, Unwrap(hclk)))
            /\ pc' = "calc_d2ppre2"
            /\ UNCHANGED <<overflow_checks, cfg, regs, regs0, writes, sys_ck, hpre, hclk,
                           acr_config, d1ppre, d2ppre2, d3ppre, clocks, outcome>>

CalcD2ppre2 ==
    /\ pc = "calc_d2ppre2"
    /\ IF overflow_checks /\ PpreUnderflows(cfg.pclk3, Unwrap(hclk))
       THEN Panic("overflow")
       ELSE /\ d2ppre2' = Some(PpreDivisor(cfg.pclk3, Unwrap(hclk)))
            /\ pc' = "calc_d3ppre"
            /\ UNCHANGED <<overflow_checks, cfg, regs, regs0, writes, sys_ck, hpre, hclk,
                           acr_config, d1ppre, d2ppre1, d3ppre, clocks, outcome>>

CalcD3ppre ==
    /\ pc = "calc_d3ppre"
    /\ IF overflow_checks /\ PpreUnderflows(cfg.pclk4, Unwrap(hclk))
       THEN Panic("overflow")
       ELSE /\ d3ppre' = Some(PpreDivisor(cfg.pclk4, Unwrap(hclk)))
            /\ pc' = "d1ppre"
            /\ UNCHANGED <<overflow_checks, cfg, regs, regs0, writes, sys_ck, hpre, hclk,
                           acr_config, d1ppre, d2ppre1, d2ppre2, clocks, outcome>>

\* rcc.<reg>.modify(.. w.<field>().bits(u8(divisor).unwrap()))
WritePpre(field, divisor, next) ==
    IF FitsU8(divisor) THEN Write(field, divisor, next) ELSE Panic("cast")

WriteD1ppre == pc = "d1ppre" /\ WritePpre("d1ppre", Unwrap(d1ppre), "d2ppre1")

WriteD2ppre1 == pc = "d2ppre1" /\ WritePpre("d2ppre1", Unwrap(d2ppre1), "d2ppre2")

WriteD2ppre2 == pc = "d2ppre2" /\ WritePpre("d2ppre2", Unwrap(d2ppre2), "d3ppre")

WriteD3ppre == pc = "d3ppre" /\ WritePpre("d3ppre", Unwrap(d3ppre), "return")

\* MakeClocks dividing the system clock, not the core-bus clock
MakeClocksFromSysCk(sys, h, hp, p1, p2, p3, p4) ==
    [sys_ck |-> sys,
     hclk1 |-> h, hclk2 |-> h, hclk3 |-> h, hclk4 |-> h,
     pclk1 |-> sys \div p1, pclk2 |-> sys \div p2, pclk3 |-> sys \div p3,
     pclk4 |-> sys \div p4,
     hpre |-> hp, d1ppre |-> p1, d2ppre1 |-> p2, d2ppre2 |-> p3, d3ppre |-> p4]

\* pclk1 = hclk / d1ppre; ..; Clocks {..}
MakeClocks(sys, h, hp, p1, p2, p3, p4) ==
    [sys_ck |-> sys,
     hclk1 |-> h, hclk2 |-> h, hclk3 |-> h, hclk4 |-> h,
     pclk1 |-> h \div p1, pclk2 |-> h \div p2, pclk3 |-> h \div p3, pclk4 |-> h \div p4,
     hpre |-> hp, d1ppre |-> p1, d2ppre1 |-> p2, d2ppre2 |-> p3, d3ppre |-> p4]

Return ==
    /\ pc = "return"
    /\ clocks' = Some(MakeClocks(Unwrap(sys_ck), Unwrap(hclk), Unwrap(hpre), Unwrap(d1ppre),
                                 Unwrap(d2ppre1), Unwrap(d2ppre2), Unwrap(d3ppre)))
    /\ pc' = "done"
    /\ outcome' = "ok"
    /\ UNCHANGED <<overflow_checks, cfg, regs, regs0, writes, locals>>

-----------------------------------------------------------------------------

Next ==
    \/ hclk1 \/ hclk2 \/ hclk3 \/ hclk4
    \/ pclk1 \/ pclk2 \/ pclk3 \/ pclk4
    \/ SysCk
    \/ FreezeBegin
    \/ WriteSwHsi \/ WaitSwsHsi
    \/ WritePllsrc \/ WriteDivm1 \/ WritePll1rge \/ WritePll1vcosel \/ WritePll1fracen
    \/ WriteDivn1 \/ WriteDivp1en \/ WriteDivp1 \/ WritePll1on \/ WaitPll1rdy
    \/ WriteSwPll \/ WaitSwsPll \/ RecomputeSysCk
    \/ CalcHpre \/ WriteHpre \/ WriteAcr
    \/ CalcD1ppre \/ CalcD2ppre1 \/ CalcD2ppre2 \/ CalcD3ppre
    \/ WriteD1ppre \/ WriteD2ppre1 \/ WriteD2ppre2 \/ WriteD3ppre
    \/ Return
    \/ HwPllLock \/ HwSwitch

Spec == Init /\ [][Next]_vars

\* a step of freeze after its first
FreezeStep ==
    \/ WriteSwHsi \/ WaitSwsHsi
    \/ WritePllsrc \/ WriteDivm1 \/ WritePll1rge \/ WritePll1vcosel \/ WritePll1fracen
    \/ WriteDivn1 \/ WriteDivp1en \/ WriteDivp1 \/ WritePll1on \/ WaitPll1rdy
    \/ WriteSwPll \/ WaitSwsPll \/ RecomputeSysCk
    \/ CalcHpre \/ WriteHpre \/ WriteAcr
    \/ CalcD1ppre \/ CalcD2ppre1 \/ CalcD2ppre2 \/ CalcD3ppre
    \/ WriteD1ppre \/ WriteD2ppre1 \/ WriteD2ppre2 \/ WriteD3ppre
    \/ Return

\* freeze runs on without a yield point, the PLL locks and the status field
\* follows the selector
FairSpec ==
    /\ Init
    /\ [][Next]_vars
    /\ WF_vars(FreezeStep)
    /\ WF_vars(HwPllLock)
    /\ WF_vars(HwSwitch)

\* freeze runs on, the hardware need not answer
StallSpec ==
    /\ Init
    /\ [][Next]_vars
    /\ WF_vars(FreezeStep)

-----------------------------------------------------------------------------
(* Properties *)

Range(q) == {q[i] : i \in DOMAIN q}

\* the place of the first write of a field, 0 if it was not written
WrittenAt(field) ==
    IF field \in Range(writes)
    THEN CHOOSE i \in DOMAIN writes :
             writes[i] = field /\ \A j \in 1..(i - 1) : writes[j] # field
    ELSE 0

PpreFields == {"d1ppre", "d2ppre1", "d2ppre2", "d3ppre"}

\* C1: a commit whose honored core-bus target is not below 200 MHz fails with
\* the range error before any register was written: no field was written and
\* every field has the value it had before the commit.
C1_RangeErrorBeforeAnyWrite ==
    outcome = "hclk" => (writes = <<>> /\ regs = regs0)

\* C2: when the commit raises the core-bus frequency, the flash wait-states
\* are written before the frequency changes; when it lowers the frequency they
\* are written after.  The bus starts at the oscillator frequency divided by
\* the core-bus prescaler in effect.
C2_WaitStatesBeforeRaise ==
    (regs0.sws = 0 /\ IsSome(hclk))
        => /\ Unwrap(hclk) > HSI \div regs0.hpre => "acr" \in Range(writes)
           /\ ("acr" \in Range(writes) /\ Unwrap(hclk) < HSI \div regs0.hpre)
                  => "hpre" \in Range(writes)

\* C3 as stated: a request with nothing set commits to 64 MHz everywhere,
\* prescalers 1 and 0 flash wait-states.
C3_DefaultCommitZeroWaitStates ==
    (cfg = EmptyCfg /\ outcome = "ok")
        => /\ Unwrap(clocks) = MakeClocks(HSI, HSI, 1, 1, 1, 1, 1)
           /\ regs.latency = 0

\* C3 amended: a request with nothing set commits to a system clock of 64 MHz,
\* all five prescalers 1, all eight bus frequencies 64 MHz, and writes
\* 1 flash wait-state (program delay 1), the row of 64 MHz.
C3_DefaultCommit ==
    (cfg = EmptyCfg /\ outcome = "ok")
        => /\ Unwrap(clocks).sys_ck = HSI
           /\ \A b \in {"hclk1", "hclk2", "hclk3", "hclk4",
                        "pclk1", "pclk2", "pclk3", "pclk4"} : Unwrap(clocks)[b] = HSI
           /\ \A d \in {"hpre", "d1ppre", "d2ppre1", "d2ppre2", "d3ppre"} :
                  Unwrap(clocks)[d] = 1 /\ regs[d] = 1
           /\ regs.latency = 1
           /\ regs.wrhighfreq = 1

C3_Witness == cfg = EmptyCfg /\ outcome = "ok" /\ "acr" \in Range(writes)

\* the request that sets nothing but the triple (32, 129, 2)
C4_Request ==
    [EmptyCfg EXCEPT !.divm = Some(32), !.divn = Some(129), !.divp = Some(2),
                     !.sys_ck = Some(129000000)]

\* C4: sys_ck accepts (32, 129, 2) with a reference of 2 MHz and a PLL output
\* of 129 MHz, and the commit of that request, once over, has returned a
\* record with a system clock of 129 MHz.
C4_Commit129MHz ==
    /\ SysCkPanic(32, 129, 2, overflow_checks) = None
    /\ HSI \div 32 = 2000000
    /\ ToInt(PllPCk(HSI \div 32, 129, 2)) = 129000000
    /\ (cfg = C4_Request /\ IsSome(sys_ck) /\ pc = "done")
           => (outcome = "ok" /\ Unwrap(clocks).sys_ck = 129000000)

\* the exact quotient (HSI / divm) * divn / divp, as a limb pair
TruePllPCk(divm, divn, divp) == LimbDiv(WideMul(HSI \div divm, divn), divp)

\* C5: every triple sys_ck has accepted has its dividers in range, a reference
\* frequency strictly between 1 and 16 MHz and an exact PLL output below
\* 400 MHz; no triple that breaks one of these is accepted.
C5_AcceptedTripleInRange ==
    IsSome(cfg.divm)
        => LET divm == Unwrap(cfg.divm)
               divn == Unwrap(cfg.divn)
               divp == Unwrap(cfg.divp)
           IN  /\ divm \in 1..63
               /\ divn \in 3..512
               /\ divp \in 2..128 /\ divp % 2 = 0
               /\ HSI \div divm > 1000000 /\ HSI \div divm < 16000000
               /\ U32Less(TruePllPCk(divm, divn, divp), U32(400000000))

\* the distance of the core-bus search for divisor d
HpreDistance(d) == WrappingSub(Unwrap(HonoredHclk(cfg)), Unwrap(sys_ck) \div d)

\* C6: with a core-bus target honored, the divisor the search chose is in the
\* core-bus table, and every smaller divisor of the table is strictly farther
\* from the target in the search's own u32 distance target - clock / d.
C6_HpreNearest ==
    (IsSome(hpre) /\ IsSome(HonoredHclk(cfg)))
        => /\ Unwrap(HonoredHclk(cfg)) < 200000000
           /\ Unwrap(hpre) \in Range(hpre_values)
           /\ \A d \in Range(hpre_values) :
                  d < Unwrap(hpre) => U32Less(HpreDistance(Unwrap(hpre)), HpreDistance(d))

C6_Witness ==
    /\ IsSome(hpre) /\ IsSome(HonoredHclk(cfg))
    /\ Unwrap(hpre) = 8
    /\ Unwrap(sys_ck) # HSI

\* C7: in the returned record each peripheral-bus divisor is one of 1, 2, 4, 8,
\* 16, is 1 when its target is unset or equals the core-bus frequency, and the
\* peripheral-bus frequency is the core-bus frequency divided by it.
C7_PpreAndPclk ==
    outcome = "ok"
        => \A b \in {<<"pclk1", "d1ppre">>, <<"pclk2", "d2ppre1">>,
                     <<"pclk3", "d2ppre2">>, <<"pclk4", "d3ppre">>} :
               LET c == Unwrap(clocks)
               IN  /\ c[b[2]] \in Range(ppre_values)
                   /\ regs[b[2]] = c[b[2]]
                   /\ (cfg[b[1]] = None \/ cfg[b[1]] = Some(c.hclk1)) => c[b[2]] = 1
                   /\ c[b[1]] = c.hclk1 \div c[b[2]]
                   /\ c.hclk1 = Unwrap(hclk)

C7_Witness ==
    /\ outcome = "ok"
    /\ Unwrap(clocks).d1ppre = 2
    /\ Unwrap(clocks).hpre = 2
    /\ Unwrap(clocks).pclk1 = 16000000

C9_PpreWritesTogether ==
    /\ (Range(writes) \cap PpreFields # {})
           => (IsSome(d1ppre) /\ IsSome(d2ppre1) /\ IsSome(d2ppre2) /\ IsSome(d3ppre))
    /\ \A i, j \in DOMAIN writes :
           (i < j /\ writes[i] \in PpreFields /\ writes[j] \in PpreFields)
               => \A k \in i..j : writes[k] \in PpreFields
    /\ \A f \in PpreFields : Cardinality({i \in DOMAIN writes : writes[i] = f}) <= 1

C9_Witness == PpreFields \subseteq Range(writes) /\ outcome = "ok"

\* frequencies on both sides of every row of the flash timing table
FlashSamples ==
    {0, 1, 44999999, 45000001, 64000000, 89999999, 90000001, 120000000, 134999999,
     135000001, 160000000, 179999999, 180000001, 208000000, 224999999}

\* C10: the flash timing selection is monotonic: a frequency not above the
\* core-bus frequency of the commit selects no more wait-states and no larger
\* program delay than were selected, a frequency not below it no fewer.
C10_FlashTimingMonotonic ==
    IsSome(acr_config)
        => \A f \in FlashSamples :
               IsSome(AcrConfig(f))
                   => /\ f <= Unwrap(hclk)
                          => /\ Unwrap(AcrConfig(f))[1] <= Unwrap(acr_config)[1]
                             /\ Unwrap(AcrConfig(f))[2] <= Unwrap(acr_config)[2]
                      /\ f >= Unwrap(hclk)
                          => /\ Unwrap(AcrConfig(f))[1] >= Unwrap(acr_config)[1]
                             /\ Unwrap(AcrConfig(f))[2] >= Unwrap(acr_config)[2]

C10_Witness ==
    /\ IsSome(acr_config)
    /\ Unwrap(acr_config) = <<3, 2>>
    /\ regs.latency = 3

\* C11: with no core-bus target set the core-bus prescaler is 1 for a system
\* clock of at most 200 MHz and 2 above it; a system clock of 240 MHz gives
\* prescaler 2, a core-bus frequency of 120 MHz and 2 wait-states.
C11_DefaultHpre ==
    (IsSome(hpre) /\ HonoredHclk(cfg) = None)
        => /\ Unwrap(hpre) = (IF Unwrap(sys_ck) <= 200000000 THEN 1 ELSE 2)
           /\ (Unwrap(sys_ck) = 240000000 /\ IsSome(hclk))
                  => /\ Unwrap(hpre) = 2
                     /\ regs.hpre = 2
                     /\ Unwrap(hclk) = 120000000
           /\ (Unwrap(sys_ck) = 240000000 /\ IsSome(acr_config))
                  => /\ Unwrap(acr_config) = <<2, 1>>
                     /\ regs.latency = 2
           /\ (Unwrap(sys_ck) = 240000000 /\ outcome = "ok")
                  => Unwrap(clocks).hclk1 = 120000000 /\ Unwrap(clocks).hpre = 2

C11_Witness ==
    /\ outcome = "ok"
    /\ HonoredHclk(cfg) = None
    /\ Unwrap(clocks).sys_ck = 240000000
    /\ regs.latency = 2

\* the codes of the bands 1-2, 2-4, 4-8, 8-16 MHz that contain a frequency
BandCodes(f) ==
    {c \in 0..3 : f >= 1000000 * (2 ^ c) /\ f <= 2000000 * (2 ^ c)}

\* C12: once a commit on the PLL path is past the range selection, it has
\* written a range code, the code of a band that contains the reference
\* frequency; the reference frequencies 2, 4 and 8 MHz included.
C12_RangeCodeSelected ==
    ("divm1" \in Range(writes) /\ pc # "pll1rge")
        => /\ "pll1rge" \in Range(writes)
           /\ regs.pll1rge \in BandCodes(HSI \div Unwrap(cfg.divm))

\* the setting of the first row of the flash table whose bound exceeds f
FirstRowAbove(f) ==
    IF f < 45000000 THEN <<0, 0>>
    ELSE IF f < 90000000 THEN <<1, 1>>
    ELSE IF f < 135000000 THEN <<2, 1>>
    ELSE IF f < 180000000 THEN <<3, 2>>
    ELSE <<4, 2>>

\* C13: once a commit with a core-bus frequency below 225 MHz is past the
\* flash timing selection, it has selected and written the setting of the
\* first row whose bound exceeds the frequency; 45, 90, 135 and 180 MHz
\* included.
C13_FlashRowSelected ==
    (IsSome(hclk) /\ Unwrap(hclk) < 225000000 /\ pc # "acr")
        => /\ acr_config = Some(FirstRowAbove(Unwrap(hclk)))
           /\ regs.latency = FirstRowAbove(Unwrap(hclk))[1]
           /\ regs.wrhighfreq = FirstRowAbove(Unwrap(hclk))[2]

PllConfigFields ==
    {"pllsrc", "divm1", "pll1rge", "pll1vcosel", "pll1fracen", "divn1", "divp1"}

\* C14: on the PLL path the seven PLL settings are written before the PLL is
\* switched on, the clock source selector is written only with the ready bit
\* set, and a prescaler or the flash register is written only with the status
\* field showing the PLL.
C14_PllOrder ==
    "pllsrc" \in Range(writes)
        => /\ "pll1on" \in Range(writes)
                  => \A f \in PllConfigFields :
                         0 < WrittenAt(f) /\ WrittenAt(f) < WrittenAt("pll1on")
           /\ "sw" \in Range(writes)
                  => /\ WrittenAt("pll1on") < WrittenAt("sw")
                     /\ regs.pll1rdy
                     /\ regs.sw = 3
           /\ pc = "pll_sw" => regs.pll1rdy
           /\ (Range(writes) \cap ({"hpre", "acr"} \cup PpreFields) # {})
                  => /\ regs.sws = 3
                     /\ \A f \in {"hpre", "acr"} \cup PpreFields :
                            f \in Range(writes) => WrittenAt("sw") < WrittenAt(f)

C14_Witness ==
    /\ "pllsrc" \in Range(writes)
    /\ ~regs0.pll1rdy
    /\ PpreFields \subseteq Range(writes)

\* C15: every commit that has ended either returned a record or failed with
\* the range error of the core-bus target: no subtraction underflows, no
\* divisor fails to fit its 8-bit field, every core-bus frequency has a row in
\* the flash table.
C15_OnlyRangeErrors ==
    (IsSome(sys_ck) /\ pc = "done") => outcome \in {"ok", "hclk"}

\* C16: in every returned record the four core-bus frequencies are equal and
\* at most 200 MHz.
C16_HclkAtMost200MHz ==
    outcome = "ok"
        => /\ Unwrap(clocks).hclk1 <= 200000000
           /\ \A b \in {"hclk2", "hclk3", "hclk4"} :
                  Unwrap(clocks)[b] = Unwrap(clocks).hclk1

PllFields == PllConfigFields \cup {"divp1en", "pll1on"}

\* C17: a commit whose requested system clock is the oscillator's 64 MHz (no
\* triple set, or a triple that gives 64 MHz) writes no PLL field, writes 0 to
\* the clock source selector first, and writes a prescaler or the flash
\* register only with the status field showing the oscillator.
C17_HsiPath ==
    (IsSome(sys_ck) /\ UnwrapOr(cfg.sys_ck, HSI) = HSI)
        => /\ Range(writes) \cap PllFields = {}
           /\ writes # <<>> => (writes[1] = "sw" /\ regs.sw = 0)
           /\ pc \notin {"hsi_sw", "hsi_sws"} => "sw" \in Range(writes)
           /\ (Range(writes) \cap ({"hpre", "acr"} \cup PpreFields) # {}) => regs.sws = 0

C17_Witness ==
    /\ cfg.sys_ck = Some(HSI)
    /\ regs0.sws = 3
    /\ outcome = "ok"
    /\ Range(writes) = {"sw", "hpre", "acr"} \cup PpreFields

\* the core-bus targets in the order of their priority
HclkTargets(c) == <<c.hclk1, c.hclk2, c.hclk3, c.hclk4>>

\* the request with every core-bus target after the first set one taken out
WithoutLowerHclk(c) ==
    LET set == {i \in 1..4 : IsSome(HclkTargets(c)[i])}
        keep(i) == IF set # {} /\ \A j \in set : i <= j THEN HclkTargets(c)[i] ELSE None
    IN  [c EXCEPT !.hclk1 = keep(1), !.hclk2 = keep(2), !.hclk3 = keep(3), !.hclk4 = keep(4)]

\* the one target left in a request with at most one core-bus target
OnlyHclk(c) ==
    LET set == {i \in 1..4 : IsSome(HclkTargets(c)[i])}
    IN  IF set = {} THEN None ELSE HclkTargets(c)[CHOOSE i \in set : TRUE]

\* C19: the core-bus divisor and the range error are those of the request
\* with every lower-priority core-bus target taken out: they depend on the
\* first set target and the system clock only.
C19_FirstSetHclkOnly ==
    LET t == OnlyHclk(WithoutLowerHclk(cfg))
    IN  /\ outcome = "hclk" => (IsSome(t) /\ Unwrap(t) >= 200000000)
        /\ IsSome(hpre) => (IsSome(t) => Unwrap(t) < 200000000)
        /\ IsSome(hpre)
               => Unwrap(hpre) = (IF IsSome(t)
                                  THEN BestDivisor(Unwrap(t), Unwrap(sys_ck), hpre_values)
                                  ELSE IF Unwrap(sys_ck) > 200000000 THEN 2 ELSE 1)
        /\ IsSome(hclk) => (regs.hpre = Unwrap(hpre)
                            /\ Unwrap(hclk) = Unwrap(sys_ck) \div Unwrap(hpre))
        /\ outcome = "ok"
               => Unwrap(clocks) =
                      MakeClocks(Unwrap(sys_ck), Unwrap(hclk), Unwrap(hpre),
                                 PpreDivisor(cfg.pclk1, Unwrap(hclk)),
                                 PpreDivisor(cfg.pclk2, Unwrap(hclk)),
                                 PpreDivisor(cfg.pclk3, Unwrap(hclk)),
                                 PpreDivisor(cfg.pclk4, Unwrap(hclk)))

C19_Witness ==
    /\ outcome = "ok"
    /\ cfg.hclk1 = Some(32000000)
    /\ cfg.hclk4 = Some(201000000)
    /\ Unwrap(clocks).hpre = 2

\* freeze is in a busy-wait whose condition the hardware has not met
Stalled ==
    \/ pc = "hsi_sws" /\ regs.sws # 0
    \/ pc = "pll1rdy" /\ ~regs.pll1rdy
    \/ pc = "pll_sws" /\ regs.sws # 3

\* C18: with the PLL locking and the status field following the selector,
\* every commit that has begun ends, with a record or a panic; and while a
\* busy-wait's condition is not met freeze can take no step and has returned
\* no record, so a commit the hardware does not answer waits forever.
C18_CommitEnds ==
    /\ IsSome(sys_ck) ~> pc = "done"
    /\ [](Stalled => (~ENABLED FreezeStep /\ clocks = None /\ pc # "done"))

C18_Witness ==
    /\ outcome = "ok"
    /\ "pll1on" \in Range(writes)
    /\ ~regs0.pll1rdy

\* C18, the case without the hardware's fairness, stated as if commits ended
\* all the same
C18_EndsWithoutHardware == IsSome(sys_ck) ~> pc = "done"

====
